---- MODULE Spec2Model ----
(***************************************************************************)
(* A model of the job crawler (src/main.py, src/src/job_data.py,           *)
(* src/src/utils.py) and of the application tracker as the dashboard       *)
(* drives it (src/tla_dashboard/utils/db_helper.py,                        *)
(* src/tla_dashboard/pages/Applications.py).                               *)
(*                                                                         *)
(* Representation of values.  A Python str is a sequence of tokens (each   *)
(* token stands for a non-empty run of characters), so "" is <<>> and      *)
(* string concatenation is \o.  Python None is the one-token sequence      *)
(* None, whose token is no token of any text.  The result of an optional   *)
(* lookup (query_selector) is a sequence of length 0 or 1.                 *)
(***************************************************************************)
EXTENDS Integers, Sequences, FiniteSets, TLC

VARIABLES
    job_info,            \* validate_job_info: the candidate passed in
    valid,               \* validate_job_info: <<the value returned>>, <<>> before the call
    job_cards,           \* main: the list page.find_all returned
    pc,                  \* main: position of the crawl
    i,                   \* main: index of the card the for loop is at
    panel,               \* the page: index of the card whose detail panel is rendered (0: none)
    error,               \* main: the exception that ended it (None: no exception)
    jobs,                \* Store: the jobs table, rows in insertion order
    scraping_sessions,   \* Store: the scraping_sessions table
    applications,        \* Store: the applications table, row k has application_id k
    result,              \* the exception the last tracker call raised (None: it returned)
    df,                  \* Applications page: the rows get_all_applications listed
    args,                \* a call of a pure function: its arguments
    ret,                 \* a call of a pure function: <<the outcome>>, <<>> before the call
    form_questions,      \* Store: the form_questions table
    form_responses,      \* Store: the form_responses table
    runs,                \* concurrent crawl runs: the state of main in each process
    cache,               \* st.cache_data of the dashboard process: function -> <<value>> or <<>>
    errors_df,           \* Error Logs page: the failed applications its query listed
    stats                \* a call of get_dashboard_stats that is running: its locals

vars == <<job_info, valid, job_cards, pc, i, panel, error, jobs, scraping_sessions,
          applications, result, df, args, ret, form_questions, form_responses, runs,
          cache, errors_df, stats>>

dashVars == <<cache, errors_df, stats>>

callVars == <<args, ret>>

formVars == <<form_questions, form_responses>>

restVars == <<args, ret, form_questions, form_responses, runs, cache, errors_df, stats>>

restButCache == <<args, ret, form_questions, form_responses, runs, errors_df, stats>>

trackerVars == <<applications, result, df>>

validateVars == <<job_info, valid>>

crawlVars == <<job_cards, pc, i, panel, error, jobs, scraping_sessions>>

None == <<"<None>">>

EmptyStr == <<>>

\* bool(v) of Python for the values of the model: None and "" are falsy.
Truthy(v) == v # None /\ v # EmptyStr

(***************************************************************************)
(* Validator                                                               *)
(***************************************************************************)
required_fields == <<"job_id", "title", "company", "location", "job_link">>

optional_fields == {"hirer_name", "hirer_profile_link", "description"}

RECURSIVE validate_loop(_, _)
validate_loop(info, k) ==
    IF k > Len(required_fields) THEN TRUE
    ELSE IF required_fields[k] \notin DOMAIN info \/ ~Truthy(info[required_fields[k]])
         THEN FALSE
         ELSE validate_loop(info, k + 1)

\* The same loop with the last required field (job_link) forgotten.
validate_job_info_short(info) ==
    \A k \in 1..(Len(required_fields) - 1) :
        required_fields[k] \in DOMAIN info /\ Truthy(info[required_fields[k]])

validate_job_info(info) == validate_loop(info, 1)

(***************************************************************************)
(* The rendered page: elements, attribute lists, listing cards             *)
(***************************************************************************)
\* An element: its flat attribute list <<name, value, name, value, ...>> and its text.
Elem(attrs, text) == [attributes |-> attrs, text |-> text]

\* {elem.attributes[i]: elem.attributes[i + 1] for i in range(0, len, 2)}:
\* a dict is a function on its keys; a later pair overrides an earlier one.
get_attributes(elem) ==
    LET a == elem.attributes
        at == {k \in 1..Len(a) : k % 2 = 1}
        last(n) == CHOOSE k \in at : a[k] = n /\ \A m \in at : a[m] = n => m <= k
    IN  [n \in {a[k] : k \in at} |-> a[last(n) + 1]]

\* d.get(key, default)
get(d, key, default) == IF key \in DOMAIN d THEN d[key] ELSE default

NL == <<"\n">>

\* sep.join(texts)
RECURSIVE join(_, _)
join(sep, texts) ==
    IF Len(texts) = 0 THEN EmptyStr
    ELSE IF Len(texts) = 1 THEN texts[1]
    ELSE texts[1] \o sep \o join(sep, Tail(texts))

\* A listing card: the content wrapper inside it (absent: <<>>) with its
\* sub-elements, and the detail panel the page renders once the card is selected.
Wrapper(id, link, strong, subtitle, caption) ==
    [attributes |-> <<"class", <<"job-card">>>> \o id,
     a |-> link, strong |-> strong, subtitle |-> subtitle, caption |-> caption]

Link(href) == <<Elem(<<"href", <<href>>>>, EmptyStr)>>

TextElem(t) == <<Elem(<<>>, t)>>

NoDetail == [hirer |-> <<>>, paragraphs |-> <<>>]

CardKinds ==
    << \* 1: job j1, complete, with a hiring-manager panel and two paragraphs
       [wrapper |-> <<Wrapper(<<"data-job-id", <<"j1">>>>, Link("/jobs/1"),
                              TextElem(<<"Engineer">>), TextElem(<<"Acme">>),
                              TextElem(<<"Berlin">>))>>,
        detail |-> [hirer |-> <<[text |-> <<"Ann">>, a |-> Link("/in/ann")]>>,
                    paragraphs |-> <<Elem(<<>>, <<"p1">>), Elem(<<>>, <<"p2">>)>>]],
       \* 2: job j2, complete, nothing in the detail panel
       [wrapper |-> <<Wrapper(<<"data-job-id", <<"j2">>>>, Link("/jobs/2"),
                              TextElem(<<"Analyst">>), TextElem(<<"Bolt">>),
                              TextElem(<<"Paris">>))>>,
        detail |-> NoDetail],
       \* 3: job j3, complete, hirer panel without a profile link
       [wrapper |-> <<Wrapper(<<"data-job-id", <<"j3">>>>, Link("/jobs/3"),
                              TextElem(<<"Tester">>), TextElem(<<"Acme">>),
                              TextElem(<<"Paris">>))>>,
        detail |-> [hirer |-> <<[text |-> <<"Bob">>, a |-> <<>>]>>,
                    paragraphs |-> <<Elem(<<>>, <<"p4">>)>>]],
       \* 4: partially rendered: no title element, company text empty
       [wrapper |-> <<Wrapper(<<"data-job-id", <<"j4">>>>, Link("/jobs/4"),
                              <<>>, TextElem(EmptyStr), TextElem(<<"Rome">>))>>,
        detail |-> NoDetail],
       \* 5: no content wrapper at all
       [wrapper |-> <<>>, detail |-> NoDetail] >>

MaxCards == 5

\* The lists page.find_all can return: cards by their kind, in page order.
Listings == UNION {[1..n -> 1..Len(CardKinds)] : n \in 0..MaxCards}

Card(k) == CardKinds[job_cards[k]]

\* What page.query_selector sees of the detail panel: the panel of the card
\* rendered last, or nothing before any panel was rendered.
Page == IF panel = 0 THEN NoDetail ELSE Card(panel).detail

(***************************************************************************)
(* Extractor                                                               *)
(***************************************************************************)
\* get_job_info raises AttributeError when it hands None to get_attributes (or
\* calls query_selector on None): the card has no content wrapper, or the hirer
\* panel has no link.
get_job_info_raises(page, card) ==
    \/ card.wrapper = <<>>
    \/ page.hirer # <<>> /\ page.hirer[1].a = <<>>

get_job_info(page, card) ==
    LET card_element == card.wrapper[1]
        job_attributes == get_attributes(card_element)
        job_link == card_element.a
        title_elem == card_element.strong
        company == card_element.subtitle
        location == card_element.caption
        hirer_information == page.hirer
        job_details == page.paragraphs
    IN  [job_id |-> get(job_attributes, "data-job-id", None),
         job_link |-> IF job_link # <<>>
                      THEN get(get_attributes(job_link[1]), "href", None) ELSE None,
         title |-> IF title_elem # <<>> THEN title_elem[1].text ELSE None,
         company |-> IF company # <<>> THEN company[1].text ELSE None,
         location |-> IF location # <<>> THEN location[1].text ELSE None,
         hirer_name |-> IF hirer_information # <<>>
                        THEN hirer_information[1].text ELSE None,
         hirer_profile_link |->
             IF hirer_information # <<>>
             THEN get(get_attributes(hirer_information[1].a[1]), "href", None)
             ELSE None,
         description |->
             IF Len(job_details) > 0
             THEN join(NL, [k \in 1..Len(job_details) |-> job_details[k].text])
             ELSE None]

(***************************************************************************)
(* Store: jobs                                                             *)
(***************************************************************************)
JobRow(info, now) ==
    [job_id |-> info.job_id, title |-> info.title, company |-> info.company,
     location |-> info.location, description |-> info.description,
     job_link |-> info.job_link, hirer_name |-> info.hirer_name,
     hirer_profile_link |-> info.hirer_profile_link,
     scraped_at |-> now, is_applied |-> FALSE, job_status |-> "active"]

\* An insert that does not look for the key first.
insert_job_blind(table, info, now) == Append(table, JobRow(info, now))

\* upsert_job: insert keyed by job_id; on a key that is present the identity
\* fields stay and scraped_at and description are refreshed.
insert_job(table, info, now) ==
    IF \E k \in 1..Len(table) : table[k].job_id = info.job_id
    THEN [k \in 1..Len(table) |->
            IF table[k].job_id = info.job_id
            THEN [table[k] EXCEPT !.scraped_at = now, !.description = info.description]
            ELSE table[k]]
    ELSE Append(table, JobRow(info, now))

(***************************************************************************)
(* main: one crawl run                                                     *)
(***************************************************************************)
\* browser.get(...), the sleep and page.find_all(...)
Navigate ==
    /\ pc = "start"
    /\ \E cards \in Listings : job_cards' = cards
    /\ pc' = "loop"
    /\ i' = 1
    /\ UNCHANGED <<panel, error, jobs, scraping_sessions, validateVars, trackerVars, restVars>>

\* connect_browser or browser.get or find_all raises: nothing catches it.
NavigationFailure ==
    /\ pc = "start"
    /\ pc' = "crashed"
    /\ error' = <<"NavigationFailure">>
    /\ UNCHANGED <<job_cards, i, panel, jobs, scraping_sessions, validateVars, trackerVars, restVars>>

\* for job in job_cards: scroll_into_view, sleep, click
SelectCard ==
    /\ pc = "loop"
    /\ i <= Len(job_cards)
    /\ pc' = "clicked"
    /\ UNCHANGED <<job_cards, i, panel, error, jobs, scraping_sessions, validateVars, trackerVars, restVars>>

\* The card selected last: the one just clicked, or the one before the loop's next.
Selected == IF pc = "clicked" THEN i ELSE i - 1

\* The site renders the detail panel of the selected card, in its own time.
PanelRenders ==
    /\ pc \in {"loop", "clicked"}
    /\ Selected >= 1
    /\ panel # Selected
    /\ panel' = Selected
    /\ UNCHANGED <<job_cards, pc, i, error, jobs, scraping_sessions, validateVars, trackerVars, restVars>>

\* The browser collaborator fails inside the loop (scroll, click or a query raises).
BrowserCrash ==
    /\ \/ pc = "loop" /\ i <= Len(job_cards)
       \/ pc = "clicked"
    /\ pc' = "crashed"
    /\ error' = <<"BrowserError">>
    /\ UNCHANGED <<job_cards, i, panel, jobs, scraping_sessions, validateVars, trackerVars, restVars>>

\* The loop body without the validation.
ProcessCardUnchecked ==
    /\ pc = "clicked"
    /\ IF get_job_info_raises(Page, Card(i))
       THEN /\ pc' = "crashed"
            /\ error' = <<"AttributeError">>
            /\ UNCHANGED <<i, jobs>>
       ELSE /\ jobs' = insert_job(jobs, get_job_info(Page, Card(i)), i)
            /\ i' = i + 1
            /\ pc' = "loop"
            /\ UNCHANGED error
    /\ UNCHANGED <<job_cards, panel, scraping_sessions, validateVars, trackerVars, restVars>>

\* The loop body with the write started but not awaited
\* (asyncio.create_task in place of await): the loop moves on at once.
ProcessCardDetached ==
    /\ pc = "clicked"
    /\ IF get_job_info_raises(Page, Card(i))
       THEN /\ pc' = "crashed"
            /\ error' = <<"AttributeError">>
            /\ UNCHANGED <<i, jobs>>
       ELSE /\ jobs' \in {jobs,
                          IF validate_job_info(get_job_info(Page, Card(i)))
                          THEN insert_job(jobs, get_job_info(Page, Card(i)), i)
                          ELSE jobs}
            /\ i' = i + 1
            /\ pc' = "loop"
            /\ UNCHANGED error
    /\ UNCHANGED <<job_cards, panel, scraping_sessions, validateVars, trackerVars, restVars>>

\* The loop body with a `break` in the else branch: an invalid card ends the
\* loop.
ProcessCardHalts ==
    /\ pc = "clicked"
    /\ IF get_job_info_raises(Page, Card(i))
       THEN /\ pc' = "crashed"
            /\ error' = <<"AttributeError">>
            /\ UNCHANGED <<i, jobs>>
       ELSE IF validate_job_info(get_job_info(Page, Card(i)))
            THEN /\ jobs' = insert_job(jobs, get_job_info(Page, Card(i)), i)
                 /\ i' = i + 1
                 /\ pc' = "loop"
                 /\ UNCHANGED error
            ELSE /\ pc' = "done"
                 /\ UNCHANGED <<i, jobs, error>>
    /\ UNCHANGED <<job_cards, panel, scraping_sessions, validateVars, trackerVars, restVars>>

\* The rest of the loop body after the wait: get_job_info, validate_job_info,
\* and db.insert_job in a worker thread that the loop awaits.
ProcessCard ==
    /\ pc = "clicked"
    /\ IF get_job_info_raises(Page, Card(i))
       THEN /\ pc' = "crashed"
            /\ error' = <<"AttributeError">>
            /\ UNCHANGED <<i, jobs>>
       ELSE /\ jobs' = IF validate_job_info(get_job_info(Page, Card(i)))
                       THEN insert_job(jobs, get_job_info(Page, Card(i)), i)
                       ELSE jobs
            /\ i' = i + 1
            /\ pc' = "loop"
            /\ UNCHANGED error
    /\ UNCHANGED <<job_cards, panel, scraping_sessions, validateVars, trackerVars, restVars>>

\* db.insert_job raises in the worker thread: the await re-raises it in main.
InsertFails ==
    /\ pc = "clicked"
    /\ ~get_job_info_raises(Page, Card(i))
    /\ validate_job_info(get_job_info(Page, Card(i)))
    /\ pc' = "crashed"
    /\ error' = <<"StorageError">>
    /\ UNCHANGED <<job_cards, i, panel, jobs, scraping_sessions, validateVars, trackerVars, restVars>>

\* The for loop is exhausted and main returns.
LoopEnds ==
    /\ pc = "loop"
    /\ i > Len(job_cards)
    /\ pc' = "done"
    /\ UNCHANGED <<job_cards, i, panel, error, jobs, scraping_sessions, validateVars, trackerVars, restVars>>

\* No crawl has started; the store is the one setup_database creates.
CrawlIdle ==
    /\ job_cards = <<>>
    /\ pc = "start"
    /\ i = 0
    /\ panel = 0
    /\ error = None
    /\ jobs = <<>>
    /\ scraping_sessions = <<>>

\* No call of validate_job_info from outside the crawl.
ValidateIdle ==
    /\ job_info = [job_id |-> None]
    /\ valid = <<>>

\* No application was created yet and no dashboard page was loaded.
TrackerIdle ==
    /\ applications = <<>>
    /\ result = None
    /\ df = <<>>

\* The processes of the concurrent runs (none has started).
RunIds == {1, 2}

IdleRun == [job_cards |-> <<>>, pc |-> "start", i |-> 0, panel |-> 0, error |-> None]

\* The functions under @st.cache_data the model calls.
CachedFunctions == {"get_all_applications", "get_dashboard_stats",
                    "get_application_status_distribution"}

\* The locals of get_dashboard_stats before its first query.
NoStats == [pc |-> "idle", total_jobs |-> 0, total_applications |-> 0,
            apps_submitted |-> 0, apps_failed |-> 0, apps_pending |-> 0]

\* The dashboard process has just started: nothing cached, no page loaded.
DashIdle ==
    /\ cache = [f \in CachedFunctions |-> <<>>]
    /\ errors_df = <<>>
    /\ stats = NoStats

\* No pure function is being called, the form tables are empty, and no
\* concurrent run has started.
RestIdle ==
    /\ DashIdle
    /\ args = <<>>
    /\ ret = <<>>
    /\ form_questions = <<>>
    /\ form_responses = <<>>
    /\ runs = [r \in RunIds |-> IdleRun]

InitCrawl == CrawlIdle /\ ValidateIdle /\ TrackerIdle /\ RestIdle

NextCrawl ==
    \/ Navigate
    \/ NavigationFailure
    \/ SelectCard
    \/ PanelRenders
    \/ BrowserCrash
    \/ ProcessCard
    \/ InsertFails
    \/ LoopEnds

SpecCrawl == InitCrawl /\ [][NextCrawl]_vars

(***************************************************************************)
(* The Validator on its own: any caller, any candidate                     *)
(***************************************************************************)
AllFields == {"job_id", "title", "company", "location", "job_link"} \cup optional_fields

Values == {None, EmptyStr, <<"x">>}

\* The candidates: every dict over a subset of the eight keys.
Candidates == UNION {[D -> Values] : D \in SUBSET AllFields}

Validate ==
    /\ valid = <<>>
    /\ valid' = <<validate_job_info(job_info)>>
    /\ UNCHANGED <<job_info, crawlVars, trackerVars, restVars>>

InitValidate ==
    /\ job_info \in Candidates
    /\ valid = <<>>
    /\ CrawlIdle
    /\ TrackerIdle
    /\ RestIdle

NextValidate == Validate

SpecValidate == InitValidate /\ [][NextValidate]_vars

\* C1: validate_job_info returns true iff each of job_id, title, company,
\* location and job_link is a key of the candidate with a value that is neither
\* None nor empty; the three optional fields play no part in the result.
C1_ValidIffRequiredPresent ==
    valid # <<>> =>
        (valid[1] <=>
            \A f \in {"job_id", "title", "company", "location", "job_link"} :
                /\ f \in DOMAIN job_info
                /\ job_info[f] # None
                /\ job_info[f] # EmptyStr)

\* A candidate without any optional key, with an empty or None optional value,
\* was accepted.
C1_Witness ==
    /\ valid = <<TRUE>>
    /\ "description" \notin DOMAIN job_info
    /\ "hirer_name" \in DOMAIN job_info /\ job_info["hirer_name"] = None
    /\ "hirer_profile_link" \in DOMAIN job_info /\ job_info["hirer_profile_link"] = EmptyStr

(***************************************************************************)
(* Properties of the crawl                                                 *)
(***************************************************************************)
\* All five required fields of a record are present values and non-empty.
Complete(r) ==
    \A f \in {"job_id", "title", "company", "location", "job_link"} :
        r[f] # None /\ r[f] # EmptyStr

\* C2: every row of the jobs table has the five required fields non-empty, and
\* the table changes only in a step of the loop body whose extracted candidate
\* has them all: a card whose candidate fails validation causes no write.
C2_WriteOnlyAfterValidation ==
    [][/\ \A k \in 1..Len(jobs') : Complete(jobs'[k])
       /\ jobs' # jobs =>
            /\ pc = "clicked"
            /\ ~get_job_info_raises(Page, Card(i))
            /\ Complete(get_job_info(Page, Card(i)))]_vars

\* An incomplete card (kind 4) was passed over and the card after it stored.
C2_Witness ==
    /\ pc = "loop"
    /\ i = 3
    /\ job_cards[1] = 4
    /\ job_cards[2] = 1
    /\ Len(jobs) = 1
    /\ jobs[1].job_id = <<"j1">>

\* C3: the jobs table never holds two rows with the same job_id.
C3_OneRowPerJobId ==
    \A k, l \in 1..Len(jobs) : jobs[k].job_id = jobs[l].job_id => k = l

\* The same job was upserted twice: one row, refreshed by the second upsert.
C3_Witness ==
    /\ pc = "loop"
    /\ i = 3
    /\ job_cards[1] = 1
    /\ job_cards[2] = 1
    /\ Len(jobs) = 1
    /\ jobs[1].scraped_at = 2

has_job_row(table, job_id) == \E r \in 1..Len(table) : table[r].job_id = job_id

\* Card k of the listing yields a candidate that passes validation (the
\* required fields are read off the card alone).
CardPasses(k) ==
    /\ Card(k).wrapper # <<>>
    /\ Complete(get_job_info(NoDetail, Card(k)))

CardJobId(k) == get_job_info(NoDetail, Card(k)).job_id

\* After a run that completed: one row for each card that passes validation,
\* and no row from any other card.
C9_JobRows ==
    pc = "done" =>
        /\ \A k \in 1..Len(job_cards) :
              CardPasses(k) =>
                  Cardinality({r \in 1..Len(jobs) : jobs[r].job_id = CardJobId(k)}) = 1
        /\ \A r \in 1..Len(jobs) :
              \E k \in 1..Len(job_cards) : CardPasses(k) /\ jobs[r].job_id = CardJobId(k)

\* After a run that completed: a session row closed as completed whose
\* jobs_found is the number of cards seen.
C9_Session ==
    pc = "done" =>
        \E s \in 1..Len(scraping_sessions) :
            /\ scraping_sessions[s].status = "completed"
            /\ scraping_sessions[s].jobs_found = Len(job_cards)

\* C9: a run without navigation or storage failure ends with jobs_found equal
\* to the number of cards seen, one Job row per card that passes validation
\* and none for the others, and the session closed with status completed.
C9_CompletedRun == C9_Session /\ C9_JobRows

\* C10: when a failure interrupts the crawl, the session row is closed with
\* status failed and a non-null error_log, and the rows persisted before the
\* failure are still there.
C10_FailedRun ==
    [][pc # "crashed" /\ pc' = "crashed" =>
         /\ jobs' = jobs
         /\ \E s \in 1..Len(scraping_sessions') :
               /\ scraping_sessions'[s].status = "failed"
               /\ scraping_sessions'[s].error_log # None]_vars

\* The rows persisted before the failure are still there after it.
C10_RowsKept == [][pc' = "crashed" => jobs' = jobs]_vars

\* The card under the loop yields a candidate, and the candidate fails
\* validation.
InvalidCard ==
    /\ pc = "clicked"
    /\ ~get_job_info_raises(Page, Card(i))
    /\ ~validate_job_info(get_job_info(Page, Card(i)))

\* C11: a validation failure on one card does not halt the crawl. The
\* iteration of an invalid card writes nothing, raises nothing and hands the
\* loop to the next card; the loop ends normally only after the last card, so
\* every card after an invalid one is reached unless an exception (never a
\* validation failure) ends the run first.
C11_InvalidCardDoesNotHalt ==
    [][/\ (InvalidCard /\ ProcessCard) =>
             /\ pc' = "loop"
             /\ i' = i + 1
             /\ error' = error
             /\ jobs' = jobs
       /\ (pc' = "done" => i' = Len(job_cards') + 1)
       /\ (pc # "crashed" /\ pc' = "crashed" => error' # None)]_vars

\* A run that completed although its first card failed validation: the
\* complete card after it was extracted, validated and stored.
C11_Witness ==
    /\ pc = "done"
    /\ job_cards = <<4, 1>>
    /\ Len(jobs) = 1
    /\ jobs[1].job_id = CardJobId(2)

\* C12: when the Store write of a validated candidate fails, the failure is
\* counted as an error of the session and the crawl continues with the next
\* card.
C12_StorageFailureContinues ==
    [][InsertFails =>
         /\ pc' = "loop"
         /\ i' = i + 1
         /\ \E s \in 1..Len(scraping_sessions') :
               scraping_sessions'[s].errors > 0]_vars

\* C15: get_job_info never raises because an element is missing: whenever the
\* loop is about to extract a card, the extraction returns a record.
C15_ExtractionNeverRaises ==
    pc = "clicked" => ~get_job_info_raises(Page, Card(i))

\* What does hold of the extraction: when it returns, the record has the
\* eight keys.
C15_EightKeys ==
    (pc = "clicked" /\ ~get_job_info_raises(Page, Card(i))) =>
        DOMAIN get_job_info(Page, Card(i)) = AllFields

\* C21: the loop visits the cards in listing order and finishes each before
\* the next: the position never goes back or skips, a Store write is the write
\* of the card under the loop and returns before the position moves, and when
\* a card is clicked every valid card before it is in the Store.
C21_CardToCompletion ==
    [][/\ i' \in {i, i + 1} \/ pc = "start"
       /\ jobs' # jobs =>
             /\ pc = "clicked" /\ pc' = "loop" /\ i' = i + 1
             /\ \E r \in 1..Len(jobs') :
                   /\ jobs'[r].job_id = CardJobId(i)
                   /\ jobs'[r].scraped_at = i
       /\ (pc # "clicked" /\ pc' = "clicked") =>
             /\ pc = "loop" /\ i' = i
             /\ \A k \in 1..(i - 1) : CardPasses(k) => has_job_row(jobs, CardJobId(k))
       /\ \A r \in 1..Len(jobs') : jobs'[r].scraped_at < i' \/ pc' = "start"]_vars

\* The third card is clicked after the first two were stored, in card order.
C21_Witness ==
    /\ pc = "clicked"
    /\ i = 3
    /\ job_cards = <<2, 1, 3>>
    /\ Len(jobs) = 2
    /\ jobs[1].job_id = <<"j2">> /\ jobs[1].scraped_at = 1
    /\ jobs[2].job_id = <<"j1">> /\ jobs[2].scraped_at = 2

\* What the detail panel of a card kind yields for the three fields read off
\* the page.
PanelFields(kind) ==
    LET detail == CardKinds[kind].detail
    IN  [hirer_name |-> IF detail.hirer # <<>> THEN detail.hirer[1].text ELSE None,
         description |->
             IF Len(detail.paragraphs) > 0
             THEN join(NL, [k \in 1..Len(detail.paragraphs) |-> detail.paragraphs[k].text])
             ELSE None]

\* C22: the hirer_name and description stored for a job come from the detail
\* panel of the card that supplied its job_id.
C22_PanelOfSameCard ==
    \A r \in 1..Len(jobs) :
        \A kind \in 1..Len(CardKinds) :
            (CardKinds[kind].wrapper # <<>>
               /\ get_job_info(NoDetail, CardKinds[kind]).job_id = jobs[r].job_id) =>
                /\ jobs[r].hirer_name = PanelFields(kind).hirer_name
                /\ jobs[r].description = PanelFields(kind).description

\* No stored job carries the description of another card's panel.
C22_NoForeignPanel ==
    \A r \in 1..Len(jobs) :
        \A kind \in 1..Len(CardKinds) :
            (CardKinds[kind].wrapper # <<>>
               /\ get_job_info(NoDetail, CardKinds[kind]).job_id = jobs[r].job_id) =>
                jobs[r].description \in {None, PanelFields(kind).description}

\* The extraction of a card runs only once its own panel is on the page.
C22_ExtractAfterRender == [][ProcessCard => panel = i]_vars

\* C16: every run creates a session row in status in_progress with a null
\* end_time at its start, and a run that ended has left that row closed
\* (end_time set, status completed or failed).
C16_SessionLifecycle ==
    /\ pc \in {"loop", "clicked"} =>
          \E s \in 1..Len(scraping_sessions) :
              /\ scraping_sessions[s].status = "in_progress"
              /\ scraping_sessions[s].end_time = None
    /\ pc \in {"done", "crashed"} =>
          /\ scraping_sessions # <<>>
          /\ \A s \in 1..Len(scraping_sessions) :
                /\ scraping_sessions[s].status \in {"completed", "failed"}
                /\ scraping_sessions[s].end_time # None

(***************************************************************************)
(* Store: applications.  A nullable SQL text is [isnull, text].            *)
(***************************************************************************)
Null == [isnull |-> TRUE, text |-> <<>>]

Txt(t) == [isnull |-> FALSE, text |-> t]

\* a || b: NULL when either side is NULL
Concat(a, b) == IF a.isnull \/ b.isnull THEN Null ELSE Txt(a.text \o b.text)

COALESCE(a, b) == IF a.isnull THEN b ELSE a

MaxApps == 2

MaxNoteLen == 4

\* The ids a caller may pass: those of the rows, and 0, which no row has.
AppIds == 0..MaxApps

has_job(table, job_id) == \E k \in 1..Len(table) : table[k].job_id = job_id

has_application(table, id) == \E k \in 1..Len(table) : table[k].application_id = id

\* The row with this id (the table has one).
row_of(table, id) == table[CHOOSE k \in 1..Len(table) : table[k].application_id = id]

\* create_application(job_id, method): a new row in status pending.
create_application(table, job_id, method) ==
    Append(table,
           [application_id |-> Len(table) + 1, job_id |-> job_id, status |-> "pending",
            application_method |-> method, confirmation_number |-> Null, notes |-> Null])

\* update_application_status(application_id, new_status, note): sets the status
\* and appends the note, when one is given, to the audit trail.
update_application_status(table, id, new_status, note) ==
    [k \in 1..Len(table) |->
        IF table[k].application_id = id
        THEN [table[k] EXCEPT
                !.status = new_status,
                !.notes = IF note.isnull THEN @
                          ELSE COALESCE(Concat(@, Concat(Txt(<<" | ">>), note)), note)]
        ELSE table[k]]

\* The UPDATE with notes = 'Retry requested' in place of the COALESCE.
retry_overwrite_notes(table, application_id) ==
    [k \in 1..Len(table) |->
        IF table[k].application_id = application_id
        THEN [table[k] EXCEPT !.status = "pending", !.notes = Txt(<<"Retry requested">>)]
        ELSE table[k]]

\* UPDATE applications SET status = 'pending',
\*   notes = COALESCE(notes || ' | Retry requested', 'Retry requested')
\* WHERE application_id = ?
retry_failed_application(table, application_id) ==
    [k \in 1..Len(table) |->
        IF table[k].application_id = application_id
        THEN [table[k] EXCEPT
                !.status = "pending",
                !.notes = COALESCE(Concat(@, Txt(<<" | ", "Retry requested">>)),
                                   Txt(<<"Retry requested">>))]
        ELSE table[k]]

\* The notes of the row with this id can take one more entry within the bound.
NotesRoom(table, id) ==
    \A k \in 1..Len(table) :
        table[k].application_id = id => Len(table[k].notes.text) < MaxNoteLen

(***************************************************************************)
(* ApplicationTracker                                                      *)
(***************************************************************************)
\* create_application without the lookup of the job.
CreateApplicationUnchecked(job_id, method) ==
    /\ Len(applications) < MaxApps
    /\ applications' = create_application(applications, job_id, method)
    /\ result' = None
    /\ UNCHANGED <<df, crawlVars, validateVars, restVars>>

\* create_application(job_id, method) as the tracker calls it: NotFoundError
\* for a job the Store does not hold.
CreateApplication(job_id, method) ==
    /\ Len(applications) < MaxApps
    /\ IF has_job(jobs, job_id)
       THEN /\ applications' = create_application(applications, job_id, method)
            /\ result' = None
       ELSE /\ result' = <<"NotFoundError">>
            /\ UNCHANGED applications
    /\ UNCHANGED <<df, crawlVars, validateVars, restVars>>

\* The note submit_outcome hands to update_application_status.
OutcomeNote(success) == IF success THEN Null ELSE Txt(<<"Submission failed">>)

\* submit_outcome that does not look at the current status.
submit_outcome_any_state(id, success, confirmation_number) ==
    /\ NotesRoom(applications, id)
    /\ IF ~has_application(applications, id)
       THEN /\ result' = <<"NotFoundError">>
            /\ UNCHANGED applications
       ELSE /\ applications' =
                 [k \in 1..Len(applications) |->
                    IF applications[k].application_id = id
                    THEN [update_application_status(
                              applications, id,
                              IF success THEN "submitted" ELSE "failed",
                              OutcomeNote(success))[k]
                          EXCEPT !.confirmation_number =
                              IF confirmation_number.isnull THEN @
                              ELSE confirmation_number]
                    ELSE applications[k]]
            /\ result' = None
    /\ UNCHANGED <<df, crawlVars, validateVars, restVars>>

\* submit_outcome(application_id, success, confirmation_number?)
submit_outcome(id, success, confirmation_number) ==
    /\ NotesRoom(applications, id)
    /\ IF ~has_application(applications, id)
       THEN /\ result' = <<"NotFoundError">>
            /\ UNCHANGED applications
       ELSE IF row_of(applications, id).status # "pending"
       THEN /\ result' = <<"InvalidTransitionError">>
            /\ UNCHANGED applications
       ELSE /\ applications' =
                 [k \in 1..Len(applications) |->
                    IF applications[k].application_id = id
                    THEN [update_application_status(
                              applications, id,
                              IF success THEN "submitted" ELSE "failed",
                              OutcomeNote(success))[k]
                          EXCEPT !.confirmation_number =
                              IF confirmation_number.isnull THEN @
                              ELSE confirmation_number]
                    ELSE applications[k]]
            /\ result' = None
    /\ UNCHANGED <<df, crawlVars, validateVars, restVars>>

\* The bot reports an attempt's outcome; only a success carries a confirmation.
SubmitOutcome(id, success, confirmation_number) ==
    /\ ~success => confirmation_number = Null
    /\ submit_outcome(id, success, confirmation_number)

\* A retry that leaves the cached results in place.
keep_cache(c) == c

\* st.cache_data.clear(): every cached result of every function is dropped.
clear_cache(c) == [f \in DOMAIN c |-> <<>>]

\* A caller's retry_failed_application(application_id): the UPDATE, then
\* st.cache_data.clear(); it returns None whatever the UPDATE matched.
Retry(id) ==
    /\ NotesRoom(applications, id)
    /\ applications' = retry_failed_application(applications, id)
    /\ cache' = clear_cache(cache)
    /\ result' = None
    /\ UNCHANGED <<df, crawlVars, validateVars, restButCache>>

\* The store after a crawl of a listing with the one card of kind 1.
CrawlDone ==
    /\ job_cards = <<1>>
    /\ pc = "done"
    /\ i = 2
    /\ panel = 1
    /\ error = None
    /\ jobs = insert_job(<<>>, get_job_info(CardKinds[1].detail, CardKinds[1]), 1)
    /\ scraping_sessions = <<>>

JobIds == {<<"j1">>, <<"j9">>}

Confirmations == {Null, Txt(<<"c1">>)}

InitTracker == CrawlDone /\ ValidateIdle /\ TrackerIdle /\ RestIdle

NextTracker ==
    \/ \E job_id \in JobIds : CreateApplication(job_id, "Easy Apply")
    \/ \E id \in AppIds, success \in BOOLEAN, c \in Confirmations :
          SubmitOutcome(id, success, c)
    \/ \E id \in AppIds : Retry(id)

SpecTracker == InitTracker /\ [][NextTracker]_vars

(***************************************************************************)
(* Properties of the tracker                                               *)
(***************************************************************************)
StatusOf(table, id) == row_of(table, id).status

\* C4: retry of an application in state failed leaves it pending; retry of an
\* application in state pending or submitted changes nothing.
C4_RetryOnlyFromFailed ==
    [][\A id \in AppIds :
          Retry(id) /\ has_application(applications, id) =>
              IF StatusOf(applications, id) = "failed"
              THEN StatusOf(applications', id) = "pending"
              ELSE applications' = applications]_vars

\* Retry of a failed application leaves it pending.
C4_FailedToPending ==
    [][\A id \in AppIds :
          /\ Retry(id)
          /\ has_application(applications, id)
          /\ StatusOf(applications, id) = "failed"
          => StatusOf(applications', id) = "pending"]_vars

\* C6: submit_outcome on a pending application returns and moves it to
\* submitted (success) or failed (failure); on an application in any other
\* state it raises the invalid-transition error and changes no row.
C6_SubmitOnlyFromPending ==
    [][\A id \in AppIds, success \in BOOLEAN, c \in Confirmations :
          SubmitOutcome(id, success, c) /\ has_application(applications, id) =>
              IF StatusOf(applications, id) = "pending"
              THEN /\ result' = None
                   /\ StatusOf(applications', id) =
                        IF success THEN "submitted" ELSE "failed"
              ELSE /\ result' = <<"InvalidTransitionError">>
                   /\ applications' = applications]_vars

\* submit_outcome was refused on an application that is submitted.
C6_Witness ==
    /\ result = <<"InvalidTransitionError">>
    /\ Len(applications) = 2
    /\ applications[1].status = "submitted"
    /\ applications[1].confirmation_number = Txt(<<"c1">>)
    /\ applications[2].status = "failed"

\* C7: a status update or a retry with an id that no row has raises
\* NotFoundError and changes no row.
C7_UnknownIdRaises ==
    [][\A id \in AppIds :
          /\ ~has_application(applications, id)
          /\ \/ Retry(id)
             \/ \E success \in BOOLEAN, c \in Confirmations : SubmitOutcome(id, success, c)
          => /\ result' = <<"NotFoundError">>
             /\ applications' = applications]_vars

\* No operation with an id that no row has changes a row.
C7_UnknownIdChangesNothing ==
    [][\A id \in AppIds :
          /\ ~has_application(applications, id)
          /\ \/ Retry(id)
             \/ \E success \in BOOLEAN, c \in Confirmations : SubmitOutcome(id, success, c)
          => applications' = applications]_vars

IsPrefix(a, b) == Len(a) <= Len(b) /\ SubSeq(b, 1, Len(a)) = a

\* C8: in every step the notes of every application before the step are a
\* prefix of its notes after it (NULL counting as empty), and a retry of a
\* failed application leaves notes that end in "Retry requested" and are longer.
C8_NotesAppendOnly ==
    [][/\ Len(applications') >= Len(applications)
       /\ \A k \in 1..Len(applications) :
             /\ applications'[k].application_id = applications[k].application_id
             /\ IsPrefix(applications[k].notes.text, applications'[k].notes.text)
             /\ applications[k].status = "failed" /\ Retry(applications[k].application_id)
                => /\ ~applications'[k].notes.isnull
                   /\ Len(applications'[k].notes.text) > Len(applications[k].notes.text)
                   /\ applications'[k].notes.text[Len(applications'[k].notes.text)]
                        = "Retry requested"]_vars

\* A failed application with a note was retried: the note is still there.
C8_Witness ==
    /\ Len(applications) >= 1
    /\ applications[1].status = "pending"
    /\ applications[1].notes = Txt(<<"Submission failed", " | ", "Retry requested">>)

\* C17: every application references a job the Store holds: a
\* create_application with an unknown job_id fails with NotFoundError and
\* creates no row, and no step removes a job an application references.
C17_ApplicationReferencesJob ==
    [][/\ \A k \in 1..Len(applications') : has_job(jobs', applications'[k].job_id)
       /\ \A k \in 1..Len(applications) : has_job(jobs', applications[k].job_id)
       /\ \A job_id \in JobIds :
             (~has_job(jobs, job_id) /\ CreateApplication(job_id, "Easy Apply")) =>
                 /\ result' = <<"NotFoundError">>
                 /\ applications' = applications]_vars

\* An application of the stored job exists, and a call was refused with
\* NotFoundError.
C17_Witness ==
    /\ Len(applications) >= 1
    /\ \A k \in 1..Len(applications) : applications[k].job_id = <<"j1">>
    /\ result = <<"NotFoundError">>

(***************************************************************************)
(* Dashboard: the Applications page                                        *)
(***************************************************************************)
\* get_all_applications with the page's default filters: every row, newest first.
get_all_applications(table) ==
    [r \in 1..Len(table) |->
        [application_id |-> table[Len(table) + 1 - r].application_id,
         job_id |-> table[Len(table) + 1 - r].job_id,
         status |-> table[Len(table) + 1 - r].status]]

\* A page load that requeues every failed application it finds.
LoadApplicationsAutoRetry ==
    /\ applications' =
          [k \in 1..Len(applications) |->
              IF applications[k].status = "failed"
              THEN [applications[k] EXCEPT
                      !.status = "pending",
                      !.notes = COALESCE(Concat(@, Txt(<<" | ", "Retry requested">>)),
                                         Txt(<<"Retry requested">>))]
              ELSE applications[k]]
    /\ df' = get_all_applications(applications')
    /\ UNCHANGED <<result, crawlVars, validateVars, restVars>>

\* A run of the page's script lists the applications.
LoadApplications ==
    /\ df' = get_all_applications(applications)
    /\ UNCHANGED <<applications, result, crawlVars, validateVars, restVars>>

\* for row in selected_rows: if row['status'] == 'failed': retry_failed_application(...)
RECURSIVE retry_rows(_, _, _, _)
retry_rows(table, rows, selected, r) ==
    IF r > Len(rows) THEN table
    ELSE retry_rows(IF r \in selected /\ rows[r].status = "failed"
                    THEN retry_failed_application(table, rows[r].application_id)
                    ELSE table,
                    rows, selected, r + 1)

\* "Retry Selected" on the rows ticked in the grid, then st.rerun(): the listing
\* is read again, from the cache unless a retry cleared it.
RetrySelected(selected) ==
    /\ selected # {}
    /\ \A r \in selected : df[r].status = "failed" => NotesRoom(applications, df[r].application_id)
    /\ applications' = retry_rows(applications, df, selected, 1)
    /\ result' = None
    /\ IF \E r \in selected : df[r].status = "failed"
       THEN df' = get_all_applications(applications')
       ELSE df' \in {df, get_all_applications(applications')}
    /\ cache' = IF \E r \in selected : df[r].status = "failed"
                THEN clear_cache(cache) ELSE cache
    /\ UNCHANGED <<crawlVars, validateVars, restButCache>>

\* "Retry Application" on the application chosen in the details selectbox.
RetryApplication(app_id) ==
    /\ \E r \in 1..Len(df) : df[r].application_id = app_id
    /\ NotesRoom(applications, app_id)
    /\ applications' = retry_failed_application(applications, app_id)
    /\ result' = None
    /\ df' = get_all_applications(applications')
    /\ cache' = clear_cache(cache)
    /\ UNCHANGED <<crawlVars, validateVars, restButCache>>

\* A delete button that deletes the row.
delete_application_row(table, app_id) ==
    SelectSeq(table, LAMBDA row : row.application_id # app_id)

\* What the delete buttons do to the applications table: they show a warning
\* and nothing else.
delete_application(table, app_id) == table

\* "Delete Selected" with some rows of the grid ticked: the click reruns the
\* script, which lists the applications again (from the cache while it lives).
DeleteSelected ==
    /\ df # <<>>
    /\ applications' = applications
    /\ df' \in {df, get_all_applications(applications')}
    /\ UNCHANGED <<result, crawlVars, validateVars, restVars>>

\* "Delete Application" on the application chosen in the details selectbox.
DeleteApplication(app_id) ==
    /\ \E r \in 1..Len(df) : df[r].application_id = app_id
    /\ applications' = delete_application(applications, app_id)
    /\ df' \in {df, get_all_applications(applications')}
    /\ UNCHANGED <<result, crawlVars, validateVars, restVars>>

NextDashboard ==
    \/ \E job_id \in JobIds : CreateApplication(job_id, "Easy Apply")
    \/ \E id \in AppIds, success \in BOOLEAN, c \in Confirmations :
          SubmitOutcome(id, success, c)
    \/ LoadApplications
    \/ \E selected \in SUBSET (1..Len(df)) : RetrySelected(selected)
    \/ \E app_id \in AppIds : RetryApplication(app_id)
    \/ DeleteSelected
    \/ \E app_id \in AppIds : DeleteApplication(app_id)

SpecDashboard == InitTracker /\ [][NextDashboard]_vars

\* C5: an application that is submitted is still submitted after every step.
C5_SubmittedIsFinal ==
    [][\A k \in 1..Len(applications) :
          applications[k].status = "submitted" => applications'[k].status = "submitted"]_vars

\* C23: an application goes from failed to pending only in a step that is a
\* retry a caller asked for, on that application: the "Retry Selected" button
\* with its row ticked, or the "Retry Application" button with it chosen. No
\* page load, delete button, create_application or submit_outcome does it.
C23_RetryIsExplicit ==
    [][\A k \in 1..Len(applications) :
          (applications[k].status = "failed" /\ applications'[k].status = "pending") =>
              \/ RetryApplication(applications[k].application_id)
              \/ \E selected \in SUBSET (1..Len(df)) :
                    /\ RetrySelected(selected)
                    /\ \E r \in selected :
                          df[r].application_id = applications[k].application_id]_vars

\* A failed application was requeued from the page, which now lists it as
\* pending.
C23_Witness ==
    /\ Len(applications) >= 1
    /\ applications[1].status = "pending"
    /\ applications[1].notes = Txt(<<"Submission failed", " | ", "Retry requested">>)
    /\ \E r \in 1..Len(df) : df[r].application_id = 1 /\ df[r].status = "pending"

\* C18: no operation removes rows: every job and every application that is in
\* the Store before a step is in the Store after it.
C18_RowsOnlyGrow ==
    [][/\ \A k \in 1..Len(jobs) : has_job(jobs', jobs[k].job_id)
       /\ \A k \in 1..Len(applications) :
             has_application(applications', applications[k].application_id)]_vars

\* Two applications went through submit_outcome, a retry from the dashboard
\* and the page's reload: both are still there, as is the job of the crawl.
C18_Witness ==
    /\ Len(applications) = 2
    /\ applications[1].status = "pending"
    /\ applications[1].notes = Txt(<<"Submission failed", " | ", "Retry requested">>)
    /\ applications[2].status = "submitted"
    /\ Len(df) = 2
    /\ df = get_all_applications(applications)
    /\ has_job(jobs, <<"j1">>)

(***************************************************************************)
(* utils: make_linkedin_url                                                *)
(***************************************************************************)
\* urllib.parse.quote_plus on one character: the unreserved ones stay, a space
\* becomes "+", every other one its percent escape.
quote_char(c) ==
    CASE c = " " -> "+"
      [] c = "&" -> "%26"
      [] c = "=" -> "%3D"
      [] c = "+" -> "%2B"
      [] OTHER -> c

quote_plus(str) == [k \in 1..Len(str) |-> quote_char(str[k])]

\* urllib.parse.urlencode(params): key=value pairs, both quoted, joined by "&",
\* in the dict's insertion order.
urlencode(params) ==
    join(<<"&">>,
         [k \in 1..Len(params) |->
            quote_plus(params[k][1]) \o <<"=">> \o quote_plus(params[k][2])])

\* The url put together without urlencode.
make_linkedin_url_raw(base_url, keyword, geo_id, easy_apply) ==
    base_url \o <<"?", "keywords", "=">> \o keyword
      \o (IF Truthy(geo_id) THEN <<"&", "geoId", "=">> \o geo_id ELSE <<>>)
      \o (IF easy_apply THEN <<"&", "f_AL", "=", "true">> ELSE <<>>)

make_linkedin_url(base_url, keyword, geo_id, easy_apply) ==
    LET params == <<<< <<"keywords">>, keyword >>>>
                     \o (IF Truthy(geo_id) THEN <<<< <<"geoId">>, geo_id >>>> ELSE <<>>)
                     \o (IF easy_apply THEN <<<< <<"f_AL">>, <<"true">> >>>> ELSE <<>>)
        query == urlencode(params)
    IN  base_url \o <<"?">> \o query

\* The longest keyword and geo_id of the calls.
MaxKeywordLen == 3

\* The pieces a keyword is made of: a letter, the characters urlencode has to
\* escape, and the words that would read as another parameter if they were
\* not escaped.
KeywordChars == {"e", " ", "&", "=", "geoId", "f_AL", "true", "keywords"}

Keywords == UNION {[1..n -> KeywordChars] : n \in 0..MaxKeywordLen}

\* geo_id: the default None, an empty config value, or an id.
GeoIds == {None, EmptyStr, <<"123">>, <<"1", "&", "keywords", "=">>}

BaseUrls == {<<"https://x.test/search">>}

\* The call main makes before browser.get.
MakeUrl ==
    /\ ret = <<>>
    /\ ret' = <<make_linkedin_url(args.base_url, args.keyword, args.geo_id,
                                  args.easy_apply)>>
    /\ UNCHANGED <<args, form_questions, form_responses, runs, dashVars,
                   crawlVars, validateVars, trackerVars>>

InitUrl ==
    /\ args \in [base_url : BaseUrls, keyword : Keywords, geo_id : GeoIds,
                 easy_apply : BOOLEAN]
    /\ ret = <<>>
    /\ form_questions = <<>>
    /\ form_responses = <<>>
    /\ runs = [r \in RunIds |-> IdleRun]
    /\ DashIdle
    /\ CrawlIdle
    /\ ValidateIdle
    /\ TrackerIdle

NextUrl == MakeUrl

SpecUrl == InitUrl /\ [][NextUrl]_vars

\* How many times the piece occurs in the text.
Occurrences(piece, text) ==
    Cardinality({k \in 1..Len(text) :
                    /\ k + Len(piece) - 1 <= Len(text)
                    /\ SubSeq(text, k, k + Len(piece) - 1) = piece})

\* The text is made of unreserved characters only.
Unreserved(text) == \A k \in 1..Len(text) : text[k] \notin {" ", "&", "=", "+"}

\* C13: the url is base_url, "?" and a query string in which keywords=<keyword>
\* occurs exactly once, geoId=<geo_id> exactly once when a geo_id is given
\* (neither None nor empty) and not at all otherwise, f_AL=true exactly once
\* when the flag is set and not at all otherwise, values url-encoded; with only
\* a keyword the url is exactly base_url?keywords=<keyword>.
C13_QueryParameters ==
    ret # <<>> =>
        LET url == ret[1]
            base == args.base_url
            query == SubSeq(url, Len(base) + 2, Len(url))
            given == args.geo_id # None /\ args.geo_id # EmptyStr
        IN  /\ IsPrefix(base \o <<"?">>, url)
            /\ Occurrences(<<"keywords", "=">>, query) = 1
            /\ IsPrefix(<<"keywords", "=">> \o quote_plus(args.keyword), query)
            /\ Occurrences(<<"geoId", "=">>, query) = IF given THEN 1 ELSE 0
            /\ given =>
                 Occurrences(<<"&", "geoId", "=">> \o quote_plus(args.geo_id), query) = 1
            /\ Occurrences(<<"f_AL", "=">>, query) = IF args.easy_apply THEN 1 ELSE 0
            /\ Occurrences(<<"f_AL", "=", "true">>, query)
                 = IF args.easy_apply THEN 1 ELSE 0
            /\ Occurrences(<<"&">>, query)
                 = (IF given THEN 1 ELSE 0) + (IF args.easy_apply THEN 1 ELSE 0)
            /\ (~given /\ ~args.easy_apply) =>
                 /\ url = base \o <<"?", "keywords", "=">> \o quote_plus(args.keyword)
                 /\ Unreserved(args.keyword) =>
                      url = base \o <<"?", "keywords", "=">> \o args.keyword

\* The url of a search with a keyword that has to be escaped, a geo_id and the
\* easy-apply flag.
C13_Witness ==
    /\ args.keyword = <<"e", "&", "geoId">>
    /\ args.geo_id = <<"123">>
    /\ args.easy_apply
    /\ ret = << <<"https://x.test/search", "?", "keywords", "=", "e", "%26", "geoId",
                  "&", "geoId", "=", "123", "&", "f_AL", "=", "true">> >>

(***************************************************************************)
(* Dashboard: success rate by company                                      *)
(***************************************************************************)
\* HAVING COUNT(a.application_id) >= 3
MinApplications == 3

\* LIMIT 20
RollupLimit == 20

\* j.company of the LEFT JOIN: NULL for an application whose job is not stored.
company_of(jobs_table, job_id) ==
    IF has_job(jobs_table, job_id)
    THEN Txt(jobs_table[CHOOSE k \in 1..Len(jobs_table) :
                            jobs_table[k].job_id = job_id].company)
    ELSE Null

\* ROUND(successful * 1.0 / total * 100, 2), in hundredths of a percent
\* (7500 is 75.0); SQLite rounds a half away from zero.
success_rate(successful, total) == (2 * 10000 * successful + total) \div (2 * total)

\* The groups of the query: one row per company of the joined rows.
company_groups(apps, jobs_table) ==
    LET companies == {company_of(jobs_table, apps[k].job_id) : k \in 1..Len(apps)}
                        \ {Null}
        rows(c) == {k \in 1..Len(apps) : company_of(jobs_table, apps[k].job_id) = c}
        submitted(c) == {k \in rows(c) : apps[k].status = "submitted"}
    IN  {[company |-> c.text,
          total_applications |-> Cardinality(rows(c)),
          successful |-> Cardinality(submitted(c)),
          success_rate |-> success_rate(Cardinality(submitted(c)), Cardinality(rows(c)))]
         : c \in companies}

\* ORDER BY success_rate DESC LIMIT 20: the orders the database may return
\* (rows of equal rate in any order), cut after the limit.
order_limit(groups) ==
    LET n == Cardinality(groups)
        m == IF n < RollupLimit THEN n ELSE RollupLimit
    IN  {SubSeq(q, 1, m) :
           q \in {q \in [1..n -> groups] :
                    /\ \A x, y \in 1..n : x # y => q[x] # q[y]
                    /\ \A x, y \in 1..n : x < y => q[x].success_rate >= q[y].success_rate}}

\* The query without its HAVING clause.
get_success_rate_all_companies(apps, jobs_table) ==
    order_limit(company_groups(apps, jobs_table))

\* get_success_rate_by_company: the results the query may return.
get_success_rate_by_company(apps, jobs_table) ==
    order_limit({g \in company_groups(apps, jobs_table) :
                    g.total_applications >= MinApplications})

\* The most applications in the Store when the rollup is computed.
MaxRollupApps == 4

\* The jobs of a crawl of the complete cards, j1 and j3 at Acme and j2 at Bolt.
RollupJobs ==
    insert_job(insert_job(insert_job(<<>>, get_job_info(NoDetail, CardKinds[1]), 1),
                          get_job_info(NoDetail, CardKinds[2]), 2),
               get_job_info(NoDetail, CardKinds[3]), 3)

\* An applications row: the job applied to and the status it reached.
RollupRow(application_id, job_id, status) ==
    [application_id |-> application_id, job_id |-> job_id, status |-> status,
     application_method |-> "Easy Apply", confirmation_number |-> Null, notes |-> Null]

Statuses == {"pending", "submitted", "failed"}

\* The Bot Performance page loads the rollup.
SuccessRateByCompany ==
    /\ ret = <<>>
    /\ \E rollup \in get_success_rate_by_company(applications, jobs) : ret' = <<rollup>>
    /\ UNCHANGED <<args, form_questions, form_responses, runs, dashVars,
                   crawlVars, validateVars, trackerVars>>

InitAnalytics ==
    /\ jobs = RollupJobs
    /\ \E n \in 0..MaxRollupApps :
          \E f \in [1..n -> {<<"j1">>, <<"j2">>, <<"j3">>} \X Statuses] :
              applications = [k \in 1..n |-> RollupRow(k, f[k][1], f[k][2])]
    /\ job_cards = <<1, 2, 3>>
    /\ pc = "done"
    /\ i = 4
    /\ panel = 0
    /\ error = None
    /\ scraping_sessions = <<>>
    /\ result = None
    /\ df = <<>>
    /\ ValidateIdle
    /\ RestIdle

NextAnalytics == SuccessRateByCompany

SpecAnalytics == InitAnalytics /\ [][NextAnalytics]_vars

\* The applications of the jobs of a company, and the submitted ones.
AppsOf(c) ==
    {k \in 1..Len(applications) :
        \E j \in 1..Len(jobs) : /\ jobs[j].job_id = applications[k].job_id
                                /\ jobs[j].company = c}

SubmittedOf(c) == {k \in AppsOf(c) : applications[k].status = "submitted"}

\* A company is in the rollup iff it has at least the minimum of applications.
C14_MinimumApplications ==
    ret # <<>> =>
        /\ \A r \in 1..Len(ret[1]) :
              /\ ret[1][r].total_applications = Cardinality(AppsOf(ret[1][r].company))
              /\ ret[1][r].total_applications >= MinApplications
        /\ \A j \in 1..Len(jobs) :
              Cardinality(AppsOf(jobs[j].company)) >= MinApplications
                 <=> \E r \in 1..Len(ret[1]) : ret[1][r].company = jobs[j].company

\* C14 as stated: success_rate is exactly 100 times the submitted applications
\* of the company divided by all its applications, and a company with fewer
\* applications than the minimum is not in the rollup.
C14_ExactRate ==
    /\ C14_MinimumApplications
    /\ ret # <<>> =>
          \A r \in 1..Len(ret[1]) :
              ret[1][r].success_rate * Cardinality(AppsOf(ret[1][r].company))
                 = 10000 * Cardinality(SubmittedOf(ret[1][r].company))

\* C14, amended: success_rate is 100 times the submitted applications of the
\* company divided by all its applications, rounded to two decimals (at most
\* half a hundredth away from the quotient), and a company with fewer
\* applications than the minimum is not in the rollup.
C14_RoundedRate ==
    /\ C14_MinimumApplications
    /\ ret # <<>> =>
          \A r \in 1..Len(ret[1]) :
              LET n == Cardinality(AppsOf(ret[1][r].company))
                  d == ret[1][r].success_rate * n
                         - 10000 * Cardinality(SubmittedOf(ret[1][r].company))
              IN  /\ 2 * d <= n
                  /\ 2 * d >= 0 - n

\* Four applications at Acme, three submitted and one failed: 75.0. Bolt has
\* no application and is not in the rollup.
C14_Witness ==
    /\ Len(applications) = 4
    /\ Cardinality(AppsOf(<<"Acme">>)) = 4
    /\ Cardinality(SubmittedOf(<<"Acme">>)) = 3
    /\ \E k \in 1..4 : applications[k].status = "failed"
    /\ ret = << <<[company |-> <<"Acme">>, total_applications |-> 4, successful |-> 3,
                   success_rate |-> 7500]>> >>

(***************************************************************************)
(* Store: form questions and responses                                     *)
(***************************************************************************)
has_question(questions, question_text) ==
    \E k \in 1..Len(questions) : questions[k].question_text = question_text

\* A new FormQuestion for every response, whether the text is known or not.
create_question(questions, question_text, question_type) ==
    Append(questions, [question_id |-> Len(questions) + 1,
                       question_text |-> question_text,
                       question_type |-> question_type])

\* The FormQuestion of a text is resolved, or created when there is none.
resolve_question(questions, question_text, question_type) ==
    IF has_question(questions, question_text)
    THEN questions
    ELSE Append(questions, [question_id |-> Len(questions) + 1,
                            question_text |-> question_text,
                            question_type |-> question_type])

question_id_of(questions, question_text) ==
    questions[CHOOSE k \in 1..Len(questions) :
                 questions[k].question_text = question_text].question_id

\* The most form responses recorded.
MaxResponses == 3

QuestionTexts == {<<"Years of experience?">>, <<"Need sponsorship?">>}

QuestionTypes == {"text", "radio"}

ResponseValues == {<<"5">>, <<"No">>}

\* record_form_response(application_id, question_text, question_type, value,
\* extra): NotFoundError for an unknown application; otherwise the question is
\* resolved or created and the response inserted.
RecordFormResponse(application_id, question_text, question_type, value) ==
    /\ Len(form_responses) < MaxResponses
    /\ IF ~has_application(applications, application_id)
       THEN /\ result' = <<"NotFoundError">>
            /\ UNCHANGED <<form_questions, form_responses>>
       ELSE /\ form_questions' = resolve_question(form_questions, question_text,
                                                  question_type)
            /\ form_responses' =
                 Append(form_responses,
                        [response_id |-> Len(form_responses) + 1,
                         application_id |-> application_id,
                         question_id |-> question_id_of(form_questions', question_text),
                         response_value |-> value,
                         response_data |-> Null])
            /\ result' = None
    /\ UNCHANGED <<applications, df, args, ret, runs, dashVars, crawlVars, validateVars>>

NextForms ==
    \/ \E job_id \in JobIds : CreateApplication(job_id, "Easy Apply")
    \/ \E application_id \in AppIds, question_text \in QuestionTexts,
          question_type \in QuestionTypes, value \in ResponseValues :
          RecordFormResponse(application_id, question_text, question_type, value)

SpecForms == InitTracker /\ [][NextForms]_vars

\* At most one question per question_text, and every response references an
\* application and a question of the Store.
FormsConsistent(questions, responses, apps) ==
    /\ \A x, y \in 1..Len(questions) :
          questions[x].question_text = questions[y].question_text => x = y
    /\ \A r \in 1..Len(responses) :
          /\ has_application(apps, responses[r].application_id)
          /\ \E q \in 1..Len(questions) :
                questions[q].question_id = responses[r].question_id

\* C19: after any sequence of record_form_response calls there is at most one
\* FormQuestion per question_text and every FormResponse references an
\* existing Application and FormQuestion; a response whose question_text is
\* known reuses the question: the questions table does not change and the
\* response carries the id of the question of that text.
C19_QuestionPerText ==
    [][/\ FormsConsistent(form_questions', form_responses', applications')
       /\ Len(form_responses') = Len(form_responses) + 1 =>
            LET new == form_responses'[Len(form_responses')]
            IN  \A q \in 1..Len(form_questions) :
                   (\E q2 \in 1..Len(form_questions') :
                       /\ form_questions'[q2].question_id = new.question_id
                       /\ form_questions'[q2].question_text
                            = form_questions[q].question_text)
                   => /\ form_questions' = form_questions
                      /\ new.question_id = form_questions[q].question_id]_vars

\* Two applications answered the same question: one question row, two
\* responses that reference it.
C19_Witness ==
    /\ Len(form_questions) = 1
    /\ Len(form_responses) >= 2
    /\ form_responses[1].application_id = 1
    /\ form_responses[2].application_id = 2
    /\ form_responses[1].question_id = form_questions[1].question_id
    /\ form_responses[2].question_id = form_questions[1].question_id

(***************************************************************************)
(* main: several crawl runs at once, each in its own process, one Store    *)
(***************************************************************************)
\* The longest listing of a concurrent run.
MaxRunCards == 2

RunListings == UNION {[1..n -> 1..Len(CardKinds)] : n \in 0..MaxRunCards}

RunCard(r, k) == CardKinds[runs[r].job_cards[k]]

\* The detail panel of the page of run r (each run has its own browser tab).
RunPage(r) ==
    IF runs[r].panel = 0 THEN NoDetail ELSE RunCard(r, runs[r].panel).detail

RunSelected(r) == IF runs[r].pc = "clicked" THEN runs[r].i ELSE runs[r].i - 1

RunUnchanged == UNCHANGED <<args, ret, form_questions, form_responses, dashVars,
                            job_cards, pc, i, panel, error, validateVars, trackerVars>>

\* browser.get(...), the sleep and page.find_all(...) in run r
RunNavigate(r) ==
    /\ runs[r].pc = "start"
    /\ \E cards \in RunListings :
          runs' = [runs EXCEPT ![r].job_cards = cards, ![r].pc = "loop", ![r].i = 1]
    /\ UNCHANGED <<jobs, scraping_sessions>>
    /\ RunUnchanged

RunNavigationFailure(r) ==
    /\ runs[r].pc = "start"
    /\ runs' = [runs EXCEPT ![r].pc = "crashed", ![r].error = <<"NavigationFailure">>]
    /\ UNCHANGED <<jobs, scraping_sessions>>
    /\ RunUnchanged

RunSelectCard(r) ==
    /\ runs[r].pc = "loop"
    /\ runs[r].i <= Len(runs[r].job_cards)
    /\ runs' = [runs EXCEPT ![r].pc = "clicked"]
    /\ UNCHANGED <<jobs, scraping_sessions>>
    /\ RunUnchanged

RunPanelRenders(r) ==
    /\ runs[r].pc \in {"loop", "clicked"}
    /\ RunSelected(r) >= 1
    /\ runs[r].panel # RunSelected(r)
    /\ runs' = [runs EXCEPT ![r].panel = RunSelected(r)]
    /\ UNCHANGED <<jobs, scraping_sessions>>
    /\ RunUnchanged

RunBrowserCrash(r) ==
    /\ \/ runs[r].pc = "loop" /\ runs[r].i <= Len(runs[r].job_cards)
       \/ runs[r].pc = "clicked"
    /\ runs' = [runs EXCEPT ![r].pc = "crashed", ![r].error = <<"BrowserError">>]
    /\ UNCHANGED <<jobs, scraping_sessions>>
    /\ RunUnchanged

\* get_job_info, validate_job_info and db.insert_job in run r; the Store
\* executes the upsert of one run at a time.
RunProcessCard(r) ==
    /\ runs[r].pc = "clicked"
    /\ IF get_job_info_raises(RunPage(r), RunCard(r, runs[r].i))
       THEN /\ runs' = [runs EXCEPT ![r].pc = "crashed",
                                    ![r].error = <<"AttributeError">>]
            /\ UNCHANGED jobs
       ELSE /\ jobs' = IF validate_job_info(get_job_info(RunPage(r), RunCard(r, runs[r].i)))
                       THEN insert_job(jobs,
                                       get_job_info(RunPage(r), RunCard(r, runs[r].i)),
                                       runs[r].i)
                       ELSE jobs
            /\ runs' = [runs EXCEPT ![r].pc = "loop", ![r].i = @ + 1]
    /\ UNCHANGED scraping_sessions
    /\ RunUnchanged

RunInsertFails(r) ==
    /\ runs[r].pc = "clicked"
    /\ ~get_job_info_raises(RunPage(r), RunCard(r, runs[r].i))
    /\ validate_job_info(get_job_info(RunPage(r), RunCard(r, runs[r].i)))
    /\ runs' = [runs EXCEPT ![r].pc = "crashed", ![r].error = <<"StorageError">>]
    /\ UNCHANGED <<jobs, scraping_sessions>>
    /\ RunUnchanged

RunLoopEnds(r) ==
    /\ runs[r].pc = "loop"
    /\ runs[r].i > Len(runs[r].job_cards)
    /\ runs' = [runs EXCEPT ![r].pc = "done"]
    /\ UNCHANGED <<jobs, scraping_sessions>>
    /\ RunUnchanged

NextRuns ==
    \E r \in RunIds :
        \/ RunNavigate(r)
        \/ RunNavigationFailure(r)
        \/ RunSelectCard(r)
        \/ RunPanelRenders(r)
        \/ RunBrowserCrash(r)
        \/ RunProcessCard(r)
        \/ RunInsertFails(r)
        \/ RunLoopEnds(r)

SpecRuns == InitCrawl /\ [][NextRuns]_vars

\* The Store holds at most one Job row per job_id, however the runs interleave.
C20_OneRowPerJobId ==
    \A x, y \in 1..Len(jobs) : jobs[x].job_id = jobs[y].job_id => x = y

\* Every run that started has a session row of its own.
C20_SessionPerRun ==
    Cardinality({r \in RunIds : runs[r].pc # "start"}) <= Len(scraping_sessions)

\* C20: when several runs are interleaved, the Store holds at most one Job row
\* per job_id and each run has its own session row.
C20_ConcurrentRuns == C20_OneRowPerJobId /\ C20_SessionPerRun

\* Both runs completed after each stored the same job: one row.
C20_SameJobTwice ==
    /\ \A r \in RunIds : runs[r].pc = "done" /\ runs[r].job_cards = <<1>>
    /\ Len(jobs) = 1

(***************************************************************************)
(* Dashboard: the cached read queries                                      *)
(***************************************************************************)
Count(table, status) ==
    Cardinality({k \in 1..Len(table) : table[k].status = status})

\* success_rate = (apps_submitted / total_apps * 100) if total_apps > 0 else 0,
\* kept as the fraction num / den.
rate(apps_submitted, total_apps) ==
    IF total_apps > 0 THEN [num |-> apps_submitted * 100, den |-> total_apps]
    ELSE [num |-> 0, den |-> 1]

\* The dict get_dashboard_stats returns for the counts its queries found.
stats_dict(total_jobs, total_apps, apps_submitted, apps_failed, apps_pending) ==
    [total_jobs |-> total_jobs, total_applications |-> total_apps,
     apps_submitted |-> apps_submitted, apps_failed |-> apps_failed,
     apps_pending |-> apps_pending, success_rate |-> rate(apps_submitted, total_apps)]

\* get_dashboard_stats when no writer runs between its queries.
get_dashboard_stats(jobs_table, apps) ==
    stats_dict(Len(jobs_table), Len(apps), Count(apps, "submitted"),
               Count(apps, "failed"), Count(apps, "pending"))

\* SELECT status, COUNT(*) FROM applications GROUP BY status
get_application_status_distribution(apps) ==
    {[status |-> st, count |-> Count(apps, st)] :
        st \in {apps[k].status : k \in 1..Len(apps)}}

\* What the body of a cached function computes from the Store.
compute(f) ==
    CASE f = "get_all_applications" -> get_all_applications(applications)
      [] f = "get_dashboard_stats" -> get_dashboard_stats(jobs, applications)
      [] f = "get_application_status_distribution" ->
            get_application_status_distribution(applications)

\* A cached function whose call also stamps the rows it read.
CallCachedWriting(f) ==
    /\ ret' = <<f, IF cache[f] # <<>> THEN cache[f][1] ELSE compute(f)>>
    /\ cache' = IF cache[f] # <<>> THEN cache ELSE [cache EXCEPT ![f] = <<compute(f)>>]
    /\ applications' = [k \in 1..Len(applications) |->
                          [applications[k] EXCEPT !.notes = Txt(<<"read">>)]]
    /\ UNCHANGED <<result, df, args, form_questions, form_responses, runs,
                   errors_df, stats, crawlVars, validateVars>>

\* A page of the dashboard calls a function under @st.cache_data(ttl=60): the
\* cached result while there is one, else the body's result, which is cached.
CallCached(f) ==
    /\ ret' = <<f, IF cache[f] # <<>> THEN cache[f][1] ELSE compute(f)>>
    /\ cache' = IF cache[f] # <<>> THEN cache ELSE [cache EXCEPT ![f] = <<compute(f)>>]
    /\ UNCHANGED <<args, form_questions, form_responses, runs, errors_df, stats,
                   crawlVars, validateVars, trackerVars>>

\* The ttl of a cached result runs out.
Expire(f) ==
    /\ cache[f] # <<>>
    /\ cache' = [cache EXCEPT ![f] = <<>>]
    /\ UNCHANGED <<args, ret, form_questions, form_responses, runs, errors_df, stats,
                   crawlVars, validateVars, trackerVars>>

\* The writers: the bot (another process) applies to the stored job and
\* reports outcomes; a caller in the dashboard process retries.
NextCache ==
    \/ CreateApplication(<<"j1">>, "Easy Apply")
    \/ \E id \in 1..MaxApps, success \in BOOLEAN : SubmitOutcome(id, success, Null)
    \/ \E id \in 1..MaxApps : Retry(id)
    \/ CallCached(args[1])
    \/ Expire(args[1])

\* The Store after a crawl, and a dashboard page that shows one of the cached
\* functions.
InitCache ==
    /\ CrawlDone
    /\ ValidateIdle
    /\ TrackerIdle
    /\ DashIdle
    /\ args \in {<<f>> : f \in CachedFunctions}
    /\ ret = <<>>
    /\ form_questions = <<>>
    /\ form_responses = <<>>
    /\ runs = [r \in RunIds |-> IdleRun]

SpecCache == InitCache /\ [][NextCache]_vars

\* C24: every aggregate returned to the reporting layer is the aggregate of
\* the Store at the time of the query: whatever was written, the next call of
\* an analytics function returns what its body computes from the Store now,
\* that is, no cached result differs from it.
C24_NextCallReflectsStore ==
    \A f \in CachedFunctions : cache[f] # <<>> => cache[f][1] = compute(f)

\* C25: the read queries are read-only: a call of any of them, also between
\* the writers' steps, leaves every row of the five tables as it was.
C25_ReadsAreReadOnly ==
    [][CallCached(args[1]) =>
         UNCHANGED <<jobs, applications, scraping_sessions, form_questions,
                     form_responses>>]_vars

\* get_dashboard_stats returned the counts of a Store two applications were
\* written to, one submitted and one failed, and both rows are as written.
C25_Witness ==
    /\ ret = <<"get_dashboard_stats", stats_dict(1, 2, 1, 1, 0)>>
    /\ Len(applications) = 2
    /\ applications[1].status = "submitted" /\ applications[1].notes = Null
    /\ applications[2].status = "failed"
    /\ applications[2].notes = Txt(<<"Submission failed">>)

\* C28: retry_failed_application drops every cached result before it returns,
\* and a call that finds nothing cached returns and caches what its body
\* computes from the Store at that time: the first read after a retry reports
\* the application as the retry stored it.
C28_RetryInvalidatesCache ==
    [][/\ (\E id \in 1..MaxApps : Retry(id)) =>
             \A f \in CachedFunctions : cache'[f] = <<>>
       /\ (CallCached(args[1]) /\ cache[args[1]] = <<>>) =>
             /\ ret' = <<args[1], compute(args[1])>>
             /\ cache'[args[1]] = <<compute(args[1])>>]_vars

\* Application 1 failed and was retried, and the get_all_applications after
\* the retry lists it as pending.
C28_Witness ==
    /\ Len(applications) = 1
    /\ applications[1].status = "pending"
    /\ applications[1].notes = Txt(<<"Submission failed", " | ", "Retry requested">>)
    /\ ret = <<"get_all_applications",
               <<[application_id |-> 1, job_id |-> <<"j1">>, status |-> "pending"]>> >>
    /\ cache["get_all_applications"] = <<ret[2]>>

(***************************************************************************)
(* Sessions: the Store's session rows and the Bot Performance page         *)
(***************************************************************************)
\* The most sessions in the table.
MaxSessions == 3

SearchQueries == {<<"engineer">>, <<"analyst">>}

\* start_session(query): a new row, in_progress, stamped with the Store's clock
\* (one tick per session).
start_session(table, search_query) ==
    Append(table, [session_id |-> Len(table) + 1, start_time |-> Len(table) + 1,
                   end_time |-> None, search_query |-> search_query,
                   jobs_found |-> 0, jobs_new |-> 0, status |-> "in_progress",
                   error_log |-> None])

\* end_session(session_id, status, error_log): the row is closed.
end_session(table, session_id, status, error_log) ==
    [k \in 1..Len(table) |->
        IF table[k].session_id = session_id
        THEN [table[k] EXCEPT !.end_time = <<"t">>, !.status = status,
                              !.error_log = error_log]
        ELSE table[k]]

in_progress(table) == {k \in 1..Len(table) : table[k].status = "in_progress"}

\* The query without its WHERE clause: the row started last, whatever its status.
latest_session(table) ==
    IF table = <<>> THEN <<>>
    ELSE LET k == CHOOSE k \in 1..Len(table) :
                     \A o \in 1..Len(table) : table[o].start_time <= table[k].start_time
         IN  <<[session_id |-> table[k].session_id, start_time |-> table[k].start_time,
                search_query |-> table[k].search_query,
                jobs_found |-> table[k].jobs_found]>>

\* SELECT session_id, start_time, search_query, jobs_found FROM scraping_sessions
\* WHERE status = 'in_progress' ORDER BY start_time DESC LIMIT 1, fetchone():
\* <<the row>>, or <<>> for None.
active_session(table) ==
    IF in_progress(table) = {} THEN <<>>
    ELSE LET k == CHOOSE k \in in_progress(table) :
                     \A o \in in_progress(table) :
                         table[o].start_time <= table[k].start_time
         IN  <<[session_id |-> table[k].session_id, start_time |-> table[k].start_time,
                search_query |-> table[k].search_query,
                jobs_found |-> table[k].jobs_found]>>

\* A crawl starts; in a single-crawl system only when none is running.
StartSession(search_query) ==
    /\ Len(scraping_sessions) < MaxSessions
    /\ in_progress(scraping_sessions) = {}
    /\ scraping_sessions' = start_session(scraping_sessions, search_query)
    /\ UNCHANGED <<job_cards, pc, i, panel, error, jobs, validateVars, trackerVars,
                   restVars>>

\* The running crawl ends, completed or failed.
EndSession(status) ==
    /\ in_progress(scraping_sessions) # {}
    /\ \E k \in in_progress(scraping_sessions) :
          scraping_sessions' =
              end_session(scraping_sessions, scraping_sessions[k].session_id, status,
                          IF status = "failed" THEN <<"NavigationFailure">> ELSE None)
    /\ UNCHANGED <<job_cards, pc, i, panel, error, jobs, validateVars, trackerVars,
                   restVars>>

\* The Bot Performance page runs its status query.
BotStatus ==
    /\ ret' = <<"active_session", active_session(scraping_sessions)>>
    /\ UNCHANGED <<args, form_questions, form_responses, runs, dashVars,
                   crawlVars, validateVars, trackerVars>>

NextSessions ==
    \/ \E search_query \in SearchQueries : StartSession(search_query)
    \/ \E status \in {"completed", "failed"} : EndSession(status)
    \/ BotStatus

SpecSessions == InitCrawl /\ [][NextSessions]_vars

\* C26: at most one session row is in_progress, and what the page reports
\* as the active session is the in_progress row with the latest start_time,
\* nothing when no row is in_progress.
C26_OneActiveSession ==
    [][/\ Cardinality(in_progress(scraping_sessions')) <= 1
       /\ BotStatus =>
            /\ in_progress(scraping_sessions) = {} => ret'[2] = <<>>
            /\ in_progress(scraping_sessions) # {} =>
                 /\ Len(ret'[2]) = 1
                 /\ \E k \in in_progress(scraping_sessions) :
                       /\ scraping_sessions[k].session_id = ret'[2][1].session_id
                       /\ scraping_sessions[k].start_time = ret'[2][1].start_time
                       /\ \A o \in in_progress(scraping_sessions) :
                             scraping_sessions[o].start_time
                                <= scraping_sessions[k].start_time]_vars

\* The page reports the running third session; two earlier ones are closed.
C26_Witness ==
    /\ Len(scraping_sessions) = 3
    /\ scraping_sessions[1].status = "failed"
    /\ scraping_sessions[2].status = "completed"
    /\ scraping_sessions[3].status = "in_progress"
    /\ ret # <<>>
    /\ ret[2] # <<>>
    /\ ret[2][1].session_id = 3

(***************************************************************************)
(* Dashboard: the Error Logs page                                          *)
(***************************************************************************)
\* SELECT a.application_id, ... FROM applications a LEFT JOIN jobs j ...
\* WHERE a.status = 'failed' ORDER BY a.applied_date DESC LIMIT 100
failed_applications(table) ==
    LET rows == SelectSeq(table, LAMBDA row : row.status = "failed")
    IN  [r \in 1..Len(rows) |->
            [app_id |-> rows[Len(rows) + 1 - r].application_id,
             job_id |-> rows[Len(rows) + 1 - r].job_id]]

\* A run of the Error Logs script reaches its query.
ErrorsQuery ==
    /\ errors_df' = failed_applications(applications)
    /\ UNCHANGED <<args, ret, form_questions, form_responses, runs, cache, stats,
                   crawlVars, validateVars, trackerVars>>

\* for _, row in errors_df.iterrows(): retry_failed_application(row['app_id'])
RECURSIVE retry_all(_, _, _)
retry_all(table, rows, r) ==
    IF r > Len(rows) THEN table
    ELSE retry_all(retry_failed_application(table, rows[r].app_id), rows, r + 1)

\* "Retry All Failed Applications" on the rows the query listed, then
\* st.rerun(), which runs the query again.
RetryAllFailed ==
    /\ errors_df # <<>>
    /\ \A r \in 1..Len(errors_df) : NotesRoom(applications, errors_df[r].app_id)
    /\ applications' = retry_all(applications, errors_df, 1)
    /\ cache' = clear_cache(cache)
    /\ errors_df' = failed_applications(applications')
    /\ UNCHANGED <<result, df, args, ret, form_questions, form_responses, runs, stats,
                   crawlVars, validateVars>>

\* "Retry This Application" on the error chosen in the details selectbox.
RetryThisApplication(error_id) ==
    /\ \E r \in 1..Len(errors_df) : errors_df[r].app_id = error_id
    /\ NotesRoom(applications, error_id)
    /\ applications' = retry_failed_application(applications, error_id)
    /\ cache' = clear_cache(cache)
    /\ errors_df' = failed_applications(applications')
    /\ UNCHANGED <<result, df, args, ret, form_questions, form_responses, runs, stats,
                   crawlVars, validateVars>>

\* The Applications page and the Error Logs page open side by side, and the
\* bot at work.
NextRetryPages ==
    \/ \E job_id \in JobIds : CreateApplication(job_id, "Easy Apply")
    \/ \E id \in AppIds, success \in BOOLEAN, c \in Confirmations :
          SubmitOutcome(id, success, c)
    \/ LoadApplications
    \/ \E selected \in SUBSET (1..Len(df)) : RetrySelected(selected)
    \/ \E app_id \in AppIds : RetryApplication(app_id)
    \/ ErrorsQuery
    \/ RetryAllFailed
    \/ \E error_id \in AppIds : RetryThisApplication(error_id)

SpecRetryPages == InitTracker /\ [][NextRetryPages]_vars

\* C27: a bulk retry changes no application that is not failed when the
\* update is applied, whatever happened to it since the list was read.
C27_BulkRetryOnlyFailed ==
    [][(RetryAllFailed \/ \E selected \in SUBSET (1..Len(df)) : RetrySelected(selected)) =>
          \A k \in 1..Len(applications) :
              applications[k].status # "failed" => applications'[k] = applications[k]]_vars

\* The part that holds: the bulk actions call retry only for rows listed as
\* failed.
C27_OnlyListedFailed ==
    [][(RetryAllFailed \/ \E selected \in SUBSET (1..Len(df)) : RetrySelected(selected)) =>
          \A k \in 1..Len(applications) :
              applications'[k] # applications[k] =>
                  \/ \E r \in 1..Len(df) :
                        /\ df[r].application_id = applications[k].application_id
                        /\ df[r].status = "failed"
                  \/ \E r \in 1..Len(errors_df) :
                        errors_df[r].app_id = applications[k].application_id]_vars

(***************************************************************************)
(* get_dashboard_stats, one query at a time                                *)
(***************************************************************************)
\* The count queries of get_dashboard_stats in the order the body runs them;
\* each conn.execute is a statement of its own.
StatsQueries == <<"total_jobs", "total_applications", "apps_submitted",
                  "apps_failed", "apps_pending">>

\* What one of the count queries finds in the Store as it is now.
stats_query(q) ==
    CASE q = "total_jobs" -> Len(jobs)
      [] q = "total_applications" -> Len(applications)
      [] q = "apps_submitted" -> Count(applications, "submitted")
      [] q = "apps_failed" -> Count(applications, "failed")
      [] q = "apps_pending" -> Count(applications, "pending")

\* The position after the query at position n.
next_query(n) == IF n < Len(StatsQueries) THEN StatsQueries[n + 1] ELSE "return"

\* The body of get_dashboard_stats runs its n-th count query (the first one on
\* a call that misses the cache).
StatsQuery(n) ==
    /\ stats.pc = (IF n = 1 THEN "idle" ELSE StatsQueries[n])
    /\ n = 1 => cache["get_dashboard_stats"] = <<>>
    /\ stats' = [stats EXCEPT !.pc = next_query(n),
                              ![StatsQueries[n]] = stats_query(StatsQueries[n])]
    /\ UNCHANGED <<args, ret, form_questions, form_responses, runs, cache, errors_df,
                   crawlVars, validateVars, trackerVars>>

\* return {...}: the dict is built from the counts found, and cached.
StatsReturn ==
    /\ stats.pc = "return"
    /\ ret' = <<"get_dashboard_stats",
                stats_dict(stats.total_jobs, stats.total_applications,
                           stats.apps_submitted, stats.apps_failed, stats.apps_pending)>>
    /\ cache' = [cache EXCEPT !["get_dashboard_stats"] = <<ret'[2]>>]
    /\ stats' = NoStats
    /\ UNCHANGED <<args, form_questions, form_responses, runs, errors_df,
                   crawlVars, validateVars, trackerVars>>

\* The dashboard calls get_dashboard_stats while the bot applies and reports
\* outcomes and another dashboard session retries.
NextStats ==
    \/ \E n \in 1..Len(StatsQueries) : StatsQuery(n)
    \/ StatsReturn
    \/ Expire("get_dashboard_stats")
    \/ CreateApplication(<<"j1">>, "Easy Apply")
    \/ \E id \in 1..MaxApps, success \in BOOLEAN : SubmitOutcome(id, success, Null)
    \/ \E id \in 1..MaxApps : Retry(id)

SpecStats == InitTracker /\ [][NextStats]_vars

\* The statistics of one returned dict agree with each other.
StatsConsistent(d) ==
    /\ d.apps_submitted + d.apps_failed + d.apps_pending <= d.total_applications
    /\ d.success_rate.num >= 0
    /\ d.success_rate.num <= 100 * d.success_rate.den
    /\ d.success_rate = IF d.total_applications = 0 THEN [num |-> 0, den |-> 1]
                        ELSE [num |-> 100 * d.apps_submitted, den |-> d.total_applications]

\* C29: the dict get_dashboard_stats returns is consistent in itself, also
\* when writers ran between its count queries: the per-status counts sum to
\* at most the total, and success_rate is 0 without applications and else
\* 100 * submitted / total, within 0..100.
C29_StatsMutuallyConsistent ==
    [][StatsReturn => StatsConsistent(ret'[2])]_vars

\* The part that holds: the counts of one state of the Store are consistent.
C29_ConsistentOnOneState ==
    StatsConsistent(get_dashboard_stats(jobs, applications))

(***************************************************************************)
(* get_applications_over_time                                              *)
(***************************************************************************)
MaxTimelineApps == 3

\* applied_date is a timestamp, counted here in half days since some day 0:
\* stamps 2d and 2d + 1 fall on day d.  NULL is <<>>.
AppliedDates == {<<>>} \cup {<<t>> : t \in 1..4}

\* DATE(applied_date)
DATE(applied_date) == applied_date \div 2

\* CURRENT_DATE - INTERVAL '{days} days': midnight of that day.
window_start(today, days) == 2 * (today - days)

\* WHERE applied_date >= CURRENT_DATE - INTERVAL '{days} days'; a NULL
\* applied_date compares to NULL and the row is dropped.
in_window(table, today, days) ==
    {k \in 1..Len(table) :
        /\ table[k].applied_date # <<>>
        /\ table[k].applied_date[1] >= window_start(today, days)}

\* SUM(CASE WHEN status = ... THEN 1 ELSE 0 END) over the rows of one group.
sum_case(table, group, status) ==
    Cardinality({k \in group : table[k].status = status})

\* ORDER BY date over the groups of the given dates.
RECURSIVE order_by_date(_, _, _)
order_by_date(table, rows, dates) ==
    IF dates = {} THEN <<>>
    ELSE LET date == CHOOSE d \in dates : \A e \in dates : d <= e
             group == {k \in rows : DATE(table[k].applied_date[1]) = date}
         IN  <<[date |-> date,
                count |-> Cardinality(group),
                submitted |-> sum_case(table, group, "submitted"),
                failed |-> sum_case(table, group, "failed")]>>
             \o order_by_date(table, rows, dates \ {date})

\* The query without GROUP BY: one row per application, in table order.
get_applications_ungrouped(table, today, days) ==
    LET rows == SelectSeq([k \in 1..Len(table) |-> k],
                          LAMBDA k : k \in in_window(table, today, days))
    IN  [r \in 1..Len(rows) |->
            [date |-> DATE(table[rows[r]].applied_date[1]),
             count |-> 1,
             submitted |-> IF table[rows[r]].status = "submitted" THEN 1 ELSE 0,
             failed |-> IF table[rows[r]].status = "failed" THEN 1 ELSE 0]]

\* get_applications_over_time(days) on the day `today`:
\* SELECT DATE(applied_date) as date, COUNT(*), SUM(...), SUM(...)
\* FROM applications WHERE ... GROUP BY DATE(applied_date) ORDER BY date
get_applications_over_time(table, today, days) ==
    LET rows == in_window(table, today, days)
    IN  order_by_date(table, rows, {DATE(table[k].applied_date[1]) : k \in rows})

\* The dashboard asks for the timeline of the last args[1] days on day args[2].
GetApplicationsOverTime ==
    /\ ret' = <<"get_applications_over_time",
                get_applications_over_time(applications, args[2], args[1])>>
    /\ UNCHANGED <<args, form_questions, form_responses, runs, cache, errors_df, stats,
                   crawlVars, validateVars, trackerVars>>

NextTimeline == GetApplicationsOverTime

\* Some applications of any status and applied date, and a call to come.
InitTimeline ==
    /\ CrawlDone
    /\ ValidateIdle
    /\ DashIdle
    /\ \E n \in 0..MaxTimelineApps :
          \E f \in [1..n -> (Statuses \cup {"in_progress"}) \X AppliedDates] :
              applications = [k \in 1..n |->
                                 [application_id |-> k, status |-> f[k][1],
                                  applied_date |-> f[k][2]]]
    /\ result = None
    /\ df = <<>>
    /\ args \in {0, 1} \X {1, 2}
    /\ ret = <<>>
    /\ form_questions = <<>>
    /\ form_responses = <<>>
    /\ runs = [r \in RunIds |-> IdleRun]

SpecTimeline == InitTimeline /\ [][NextTimeline]_vars

\* C30: in the result of get_applications_over_time every date has at most
\* one row, the rows are in ascending date order, and in every row
\* submitted + failed <= count, where count is the number of applications
\* of that applied date inside the window.
C30_TimelineRows ==
    ret # <<>> =>
        LET timeline == ret[2]
            today == args[2]
            days == args[1]
        IN  /\ \A a, b \in 1..Len(timeline) :
                  a < b => timeline[a].date < timeline[b].date
            /\ \A a \in 1..Len(timeline) :
                  /\ timeline[a].submitted + timeline[a].failed <= timeline[a].count
                  /\ timeline[a].count =
                        Cardinality({k \in 1..Len(applications) :
                            /\ applications[k].applied_date # <<>>
                            /\ applications[k].applied_date[1] >= 2 * (today - days)
                            /\ applications[k].applied_date[1] \div 2 = timeline[a].date})
                  /\ timeline[a].submitted =
                        Cardinality({k \in 1..Len(applications) :
                            /\ applications[k].applied_date # <<>>
                            /\ applications[k].applied_date[1] >= 2 * (today - days)
                            /\ applications[k].applied_date[1] \div 2 = timeline[a].date
                            /\ applications[k].status = "submitted"})

\* Two applications of one day, one submitted and one pending, and a failed
\* one of a later day: two rows, the pending one counted in count only.
C30_Witness ==
    /\ ret # <<>>
    /\ Len(applications) = 3
    /\ \E a, b \in 1..3 :
          /\ a # b
          /\ applications[a].applied_date # <<>>
          /\ applications[b].applied_date # <<>>
          /\ applications[a].applied_date # applications[b].applied_date
          /\ applications[a].status = "submitted"
          /\ applications[b].status = "pending"
    /\ ret[2] = <<[date |-> 1, count |-> 2, submitted |-> 1, failed |-> 0],
                  [date |-> 2, count |-> 1, submitted |-> 0, failed |-> 1]>>

====
